---- MODULE Spec2Model ----
(***************************************************************************)
(* Model of the chat relay of resume-chat: the Next.js route handler       *)
(* POST /api/chat (src/web/app/api/chat/route.ts) and the zod schemas it   *)
(* validates with (src/unnamed/part_003, imported as "@/lib/schemas").     *)
(*                                                                         *)
(* JavaScript runs a handler to completion between awaits, so one action   *)
(* of the model is one event of the event loop (the request body arriving, *)
(* the upstream answering, a signal firing) together with the handler code *)
(* that the event resumes, up to the handler's next await or its return.   *)
(***************************************************************************)
EXTENDS Integers, Sequences, FiniteSets, TLC

(***************************************************************************)
(* Bounds of the model.                                                    *)
(***************************************************************************)
\* longest history array the validator is given
MaxHist == 2
\* number of invocations of POST in one behaviour
MaxInv == 2

(***************************************************************************)
(* JSON values.  A scalar is a tagged string, so that values of different  *)
(* JavaScript types can sit in one set.                                    *)
(***************************************************************************)
Undef == [t |-> "undef", s |-> ""]
Null == [t |-> "null", s |-> ""]
Str(x) == [t |-> "str", s |-> x]
Num(x) == [t |-> "num", s |-> x]
Bool(x) == [t |-> "bool", s |-> x]

\* JavaScript truthiness of a scalar, as `a || b` and `a && b` test it
Truthy(v) ==
    CASE v.t = "undef" -> FALSE
      [] v.t = "null" -> FALSE
      [] v.t = "str" -> v.s # ""
      [] v.t = "num" -> v.s # "0"
      [] v.t = "bool" -> v.s = "true"
      [] OTHER -> TRUE

\* a history entry and a history value as they arrive (not yet validated)
Entry(r, c) == [role |-> r, content |-> c]
NoHistory == [t |-> "undef", items |-> <<>>]
HistArr(xs) == [t |-> "arr", items |-> xs]
HistNotArray == [t |-> "str", items |-> <<>>]

\* a decoded request body: a JSON object, JSON null, or (t = "bad") a body
\* that is not JSON at all, on which req.json() throws
Obj(m, h) == [t |-> "obj", message |-> m, history |-> h]
NullData == [t |-> "null", message |-> Undef, history |-> NoHistory]
BadBody == [t |-> "bad", message |-> Undef, history |-> NoHistory]

(***************************************************************************)
(* The zod schemas.  safeParse never throws: it returns success with the   *)
(* parsed data, or failure with the issues in the order zod finds them     *)
(* (object keys in schema order, array elements in index order).           *)
(***************************************************************************)
Roles == {"user", "assistant", "system"}

Issue(code, path) == [code |-> code, path |-> path]

\* z.string()
StringIssues(v, path) ==
    IF v.t = "str" THEN <<>> ELSE <<Issue("invalid_type", path)>>

\* z.string().min(1, "Message cannot be empty")
ContentIssues(v, path) ==
    IF v.t # "str" THEN <<Issue("invalid_type", path)>>
    ELSE IF v.s = "" THEN <<Issue("too_small", path)>>
    ELSE <<>>

\* z.enum(["user", "assistant", "system"])
RoleIssues(v, path) ==
    IF v.t = "str" /\ v.s \in Roles THEN <<>>
    ELSE <<Issue("invalid_value", path)>>

\* chatMessageSchema without the .min(1) on content
chatMessageSchemaNoMin(e, i) ==
    RoleIssues(e.role, <<"history", i, "role">>)
        \o StringIssues(e.content, <<"history", i, "content">>)

\* chatMessageSchema on the entry at (0-based) index i of history
chatMessageSchema(e, i) ==
    RoleIssues(e.role, <<"history", i, "role">>)
        \o ContentIssues(e.content, <<"history", i, "content">>)

RECURSIVE ArrayIssues(_, _)
\* z.array(chatMessageSchema): the issues of items[k..], k 1-based
ArrayIssues(items, k) ==
    IF k > Len(items) THEN <<>>
    ELSE chatMessageSchema(items[k], k - 1) \o ArrayIssues(items, k + 1)

\* z.array(chatMessageSchema).optional()
HistoryIssues(h) ==
    CASE h.t = "undef" -> <<>>
      [] h.t = "arr" -> ArrayIssues(h.items, 1)
      [] OTHER -> <<Issue("invalid_type", <<"history">>)>>

\* chatRequestSchema.safeParse(data)
chatRequestSchema(d) ==
    LET issues ==
            IF d.t # "obj" THEN <<Issue("invalid_type", <<>>)>>
            ELSE StringIssues(d.message, <<"message">>) \o HistoryIssues(d.history)
    IN  [success |-> issues = <<>>, data |-> d, issues |-> issues]


(***************************************************************************)
(* Upstream responses and the handler's own responses.                     *)
(***************************************************************************)
\* the bytes of an upstream body: a JSON object with these four keys (Undef =
\* key absent), the JSON text null, text that is not JSON, or nothing at all
UBody(t, e, m, r, h) == [t |-> t, error |-> e, message |-> m, reply |-> r, handled |-> h]
NoBody == UBody("none", Undef, Undef, Undef, Undef)
NoRes == [status |-> 0, ctype |-> <<>>, body |-> NoBody]

\* a thrown value: an Error with a name and a message
Err(name, message) == [name |-> name, message |-> message]
NoErr == Err("", "")
TimeoutErr == Err("TimeoutError", "The operation was aborted due to timeout")
SyntaxErr == Err("SyntaxError", "Unexpected token in JSON")
FetchFailed == Err("TypeError", "fetch failed")
Terminated == Err("TypeError", "terminated")
ZodErr == Err("ZodError", "invalid upstream payload")
StatusErr == Err("TypeError", "Response constructor: Invalid response status code")

\* a response of the handler; kind is "json" (NextResponse.json), "text"
\* (new NextResponse(String(payload))) or "none" (nothing returned yet)
NoResponse ==
    [status |-> 0, kind |-> "none", error |-> Undef, detail |-> Undef,
     issues |-> <<>>, reply |-> Undef, handled |-> Undef,
     ctype |-> <<>>, raw |-> NoBody]

\* NextResponse.json({ error }, { status })
JsonError(status, error) ==
    [NoResponse EXCEPT !.status = status, !.kind = "json", !.error = error]

\* the Response constructor refuses a status outside 200..599 and a body on a
\* null-body status: NextResponse.json(body, { status }) throws there
NullBodyStatus == {101, 103, 204, 205, 304}
CanCarryBody(status) == status \in 200..599 /\ status \notin NullBodyStatus

\* res.ok taken to mean status 200
OkOnly200(status) == status = 200

\* res.ok
Ok(status) == status \in 200..299

\* contentType.includes("application/json"), the header value being a sequence
\* of its ";"-separated parts
IsJson(ctype) == \E i \in 1..Len(ctype) : ctype[i] = "application/json"

\* res.headers.get("content-type") || "" and, at line 59, contentType || "text/plain"
ContentTypeOrPlain(ctype) == IF ctype = <<>> THEN <<"text/plain">> ELSE ctype

(***************************************************************************)
(* The handler's code after the upstream body has been read.               *)
(***************************************************************************)
\* the payload, a JavaScript value: an object, null, or a string
NullPayload == UBody("null", Undef, Undef, Undef, Undef)
TextPayload(b) == UBody(IF b.t = "empty" THEN "emptystring" ELSE "string", Undef, Undef, Undef, Undef)

\* res.json(): the parsed body, or a rejection when the body is not JSON
JsonParses(b) == b.t \in {"obj", "null"}

\* `payload && (payload as any).f`: a falsy payload itself, else its property f
\* (undefined on a string)
AndProp(p, f) ==
    CASE p.t = "obj" -> p[f]
      [] p.t = "null" -> Null
      [] p.t = "emptystring" -> Str("")
      [] OTHER -> Undef

\* `Upstream error ${res.status}`
UpstreamErrorText(status) == Str("Upstream error " \o ToString(status))

\* lines 43-46 with the two fields tried in the other order
ErrorMessageSwapped(p, status) ==
    IF Truthy(AndProp(p, "message")) THEN AndProp(p, "message")
    ELSE IF Truthy(AndProp(p, "error")) THEN AndProp(p, "error")
    ELSE UpstreamErrorText(status)

\* lines 43-46: error || message || synthesized text
ErrorMessage(p, status) ==
    IF Truthy(AndProp(p, "error")) THEN AndProp(p, "error")
    ELSE IF Truthy(AndProp(p, "message")) THEN AndProp(p, "message")
    ELSE UpstreamErrorText(status)

\* chatResponseSchema without its handled key
chatResponseSchemaReplyOnly(p) == p.t = "obj" /\ p.reply.t = "str"

\* chatResponseSchema: z.object({ reply: z.string(), handled: z.boolean() })
chatResponseSchema(p) ==
    p.t = "obj" /\ p.reply.t = "str" /\ p.handled.t = "bool"

\* the catch block without its generic branch's detail
CatchNoDetail(e) ==
    IF e.name = "AbortError" \/ e.name = "TimeoutError"
    THEN JsonError(504, Str("Upstream request timed out"))
    ELSE JsonError(500, Str("[API_CHAT] Unexpected error"))

\* lines 61-75: the catch block
Catch(e) ==
    IF e.name = "AbortError" \/ e.name = "TimeoutError"
    THEN JsonError(504, Str("Upstream request timed out"))
    ELSE [JsonError(500, Str("[API_CHAT] Unexpected error")) EXCEPT !.detail = Str(e.message)]

\* what a run of handler code ends with: the response returned, and the
\* exception the catch block caught on the way (NoErr if none)
Returned(resp) == [response |-> resp, err |-> NoErr]
Caught(e) == [response |-> Catch(e), err |-> e]

\* lines 42-60, given the response head r and the payload p
Respond(r, p) ==
    IF ~Ok(r.status)
    THEN IF CanCarryBody(r.status)
         THEN Returned(JsonError(r.status, ErrorMessage(p, r.status)))
         ELSE Caught(StatusErr)
    ELSE IF IsJson(r.ctype)
    THEN IF chatResponseSchema(p)
         THEN Returned([NoResponse EXCEPT !.status = 200, !.kind = "json",
                                          !.reply = p.reply, !.handled = p.handled])
         ELSE Caught(ZodErr)
    ELSE Returned([NoResponse EXCEPT !.status = 200, !.kind = "text",
                                     !.ctype = ContentTypeOrPlain(r.ctype),
                                     !.raw = r.body])

\* lines 38-40 then 42-60, when the body b has arrived whole
OnBody(r, b) ==
    IF IsJson(r.ctype)
    THEN Respond(r, IF JsonParses(b) THEN b ELSE NullPayload)
    ELSE Respond(r, TextPayload(b))

\* lines 38-40 then 42-60, when the body read is rejected with e (the signal
\* fired or the connection broke): res.json().catch(() => null) swallows it,
\* res.text() lets it reach the catch block
OnBodyRejected(r, e) ==
    IF IsJson(r.ctype) THEN Respond(r, NullPayload) ELSE Caught(e)


(***************************************************************************)
(* The inputs the environment draws from.                                  *)
(***************************************************************************)
\* process.env.API_URL: unset, empty, or a base URL
ApiUrls == {Undef, Str(""), Str("http://api")}

Messages == {Undef, Num("7"), Str(""), Str("hi")}
EntryRoles == {Str("user"), Str("assistant"), Str("system"), Str("bot")}
EntryContents == {Str(""), Str("x")}
Entries == {Entry(r, c) : r \in EntryRoles, c \in EntryContents}

\* every sequence over S of length at most n
SeqsUpTo(S, n) == UNION {[1..k -> S] : k \in 0..n}

\* the decoded bodies the validator is checked on
Requests ==
    {Obj(m, h) : m \in Messages,
                 h \in {NoHistory, HistNotArray}
                         \cup {HistArr(xs) : xs \in SeqsUpTo(Entries, MaxHist)}}
        \cup {NullData}

\* the request bodies sent to the relay
RelayHistories ==
    {NoHistory, HistNotArray,
     HistArr(<<Entry(Str("user"), Str("x")), Entry(Str("assistant"), Str("x"))>>),
     HistArr(<<Entry(Str("user"), Str("x")), Entry(Str("bot"), Str("x"))>>),
     HistArr(<<Entry(Str("user"), Str(""))>>)}
RelayRequests ==
    {Obj(m, h) : m \in Messages, h \in RelayHistories} \cup {NullData, BadBody}

\* the reason the caller's signal aborts with: the DOM default, or the
\* server's own error class
CallerAbortReasons ==
    {Err("AbortError", "This operation was aborted"), Err("ResponseAborted", "")}

Statuses == {200, 201, 304, 503}
ContentTypes ==
    {<<>>, <<"text/plain">>, <<"application/json">>,
     <<"application/json", "charset=utf-8">>}
Bodies ==
    {UBody("obj", e, m, Undef, Undef) :
        e \in {Undef, Str(""), Str("overloaded")}, m \in {Undef, Str("bad gateway")}}
    \cup {UBody("obj", Undef, Undef, r, h) :
        r \in {Str("Paris"), Num("7")}, h \in {Bool("true"), Bool("false"), Undef}}
    \cup {UBody("null", Undef, Undef, Undef, Undef),
          UBody("bad", Undef, Undef, Undef, Undef),
          UBody("empty", Undef, Undef, Undef, Undef)}

(***************************************************************************)
(* State.                                                                  *)
(***************************************************************************)
VARIABLES
    apiUrl,       \* API_URL, read once when the module loads
    inv,          \* number of the current invocation of POST
    pc,           \* where the handler is: idle, awaitBody, awaitFetch, awaitPayload, done
    data,         \* the body of the current request
    reqSignal,    \* req.signal: NoErr, or the reason it aborted with
    timer,        \* AbortSignal.timeout(20_000): unset, armed or fired
    outstanding,  \* whether the upstream call of this invocation is in flight
    calls,        \* every upstream POST issued so far: invocation and body
    ops,          \* what this invocation has done so far, and when the caller left, in order
    res,          \* the upstream response of this invocation
    err,          \* the exception the catch block caught, if any
    response,     \* the response this invocation returned
    vInput,       \* the decoded value handed to chatRequestSchema.safeParse
    vResult,      \* what safeParse returned for vInput
    messages,     \* ChatPanel: the conversation
    input,        \* ChatPanel: the text in the input box
    loading,      \* ChatPanel: the loading flag
    error,        \* ChatPanel: the error shown, or Null
    pending,      \* the /api/chat requests of ChatPanel that are in flight, oldest first
    turns,        \* how many requests ChatPanel has sent since it was mounted
    uiLast        \* what ChatPanel did last

relayVars ==
    <<apiUrl, inv, pc, data, reqSignal, timer, outstanding, calls, ops, res, err, response>>
vars ==
    <<apiUrl, inv, pc, data, reqSignal, timer, outstanding, calls, ops, res, err, response,
      vInput, vResult, messages, input, loading, error, pending, turns, uiLast>>
uiVars == <<messages, input, loading, error, pending, turns, uiLast>>

NoResult == [success |-> FALSE, data |-> NullData, issues |-> <<>>]

InitRelay ==
    /\ apiUrl \in ApiUrls
    /\ inv = 1
    /\ pc = "idle"
    /\ data = NullData
    /\ reqSignal = NoErr
    /\ timer = "unset"
    /\ outstanding = FALSE
    /\ calls = <<>>
    /\ ops = <<>>
    /\ res = NoRes
    /\ err = NoErr
    /\ response = NoResponse

\* part_000 lines 17-22: the state ChatPanel mounts with
SystemMessage == [role |-> "system", content |-> "You are a helpful assistant."]

InitUI ==
    /\ messages = <<SystemMessage>>
    /\ input = ""
    /\ loading = FALSE
    /\ error = Null
    /\ pending = <<>>
    /\ turns = 0
    /\ uiLast = "mount"

Init ==
    /\ InitRelay
    /\ InitUI
    /\ vInput = NullData
    /\ vResult = NoResult

(***************************************************************************)
(* The handler.                                                            *)
(***************************************************************************)
\* line 10 written as API_URL === undefined
ConfigMissingUndefOnly(url) == url.t = "undef"

\* line 10: !API_URL
ConfigMissing(url) == ~Truthy(url)

\* line 26 with only req.signal given to fetch
SignalCallerOnly(rs, tm) == rs

\* line 26 with only the timeout given to fetch
SignalTimerOnly(rs, tm) == IF tm = "fired" THEN TimeoutErr ELSE NoErr

\* line 26: AbortSignal.any([req.signal, AbortSignal.timeout(20_000)]): NoErr
\* while neither has fired, else the reason of the one that fired
Signal(rs, tm) ==
    IF rs # NoErr THEN rs
    ELSE IF tm = "fired" THEN TimeoutErr
    ELSE NoErr

\* lines 28-34 behind a cache keyed by the request body
FetchCallsDedup(log, n, body) ==
    IF \E i \in 1..Len(log) : log[i].body = body
    THEN log
    ELSE Append(log, [inv |-> n, body |-> body])

\* lines 28-34: the POST that fetch puts on the wire
FetchCalls(log, n, body) == Append(log, [inv |-> n, body |-> body])

\* the handler returns (or its catch block does): out is Returned(..) or Caught(..)
Finish(out) ==
    /\ pc' = "done"
    /\ response' = out.response
    /\ err' = out.err

\* lines 9-16: POST is invoked with request r; without API_URL it returns at
\* once, else it awaits req.json()
Invoke(r) ==
    /\ pc = "idle"
    /\ data' = r
    /\ IF ConfigMissing(apiUrl)
       THEN /\ Finish(Returned(JsonError(500, Str("API_URL not found"))))
            /\ ops' = <<"config">>
       ELSE /\ pc' = "awaitBody"
            /\ ops' = <<"config", "json">>
            /\ UNCHANGED <<response, err>>
    /\ UNCHANGED <<apiUrl, inv, reqSignal, timer, outstanding, calls, res, vInput, vResult, uiVars>>

\* lines 16-34: req.json() settles; the handler validates and calls fetch
BodyRead ==
    /\ pc = "awaitBody"
    /\ IF data.t = "bad"
       THEN /\ Finish(Caught(SyntaxErr))
            /\ UNCHANGED <<ops, timer, calls, outstanding>>
       ELSE LET parsed == chatRequestSchema(data) IN
            IF ~parsed.success
            THEN /\ Finish(Returned([NoResponse EXCEPT
                                        !.status = 400, !.kind = "json",
                                        !.error = Str("Invalid request data"),
                                        !.issues = parsed.issues]))
                 /\ ops' = ops \o <<"validate">>
                 /\ UNCHANGED <<timer, calls, outstanding>>
            ELSE /\ timer' = "armed"
                 /\ ops' = ops \o <<"validate", "fetch">>
                 /\ IF Signal(reqSignal, "armed") # NoErr
                    THEN \* fetch with a signal already aborted rejects at once
                         /\ Finish(Caught(Signal(reqSignal, "armed")))
                         /\ UNCHANGED <<calls, outstanding>>
                    ELSE /\ calls' = FetchCalls(calls, inv, parsed.data)
                         /\ outstanding' = TRUE
                         /\ pc' = "awaitFetch"
                         /\ UNCHANGED <<response, err>>
    /\ UNCHANGED <<apiUrl, inv, data, reqSignal, res, vInput, vResult, uiVars>>

\* fetch resolves with the response head; lines 36-40 start reading the body
UpstreamResponds(st, ct) ==
    /\ pc = "awaitFetch"
    /\ res' = [status |-> st, ctype |-> ct, body |-> NoBody]
    /\ pc' = "awaitPayload"
    /\ UNCHANGED <<apiUrl, inv, data, reqSignal, timer, outstanding, calls, ops, err,
                   response, vInput, vResult, uiVars>>

\* fetch rejects: the upstream is unreachable
UpstreamFails ==
    /\ pc = "awaitFetch"
    /\ outstanding' = FALSE
    /\ Finish(Caught(FetchFailed))
    /\ UNCHANGED <<apiUrl, inv, data, reqSignal, timer, calls, ops, res, vInput, vResult, uiVars>>

\* the upstream body b has arrived whole; lines 38-60 run
BodyArrives(b) ==
    /\ pc = "awaitPayload"
    /\ res' = [res EXCEPT !.body = b]
    /\ outstanding' = FALSE
    /\ Finish(OnBody(res', b))
    /\ UNCHANGED <<apiUrl, inv, data, reqSignal, timer, calls, ops, vInput, vResult, uiVars>>

\* the connection breaks while the body is read
BodyFails ==
    /\ pc = "awaitPayload"
    /\ outstanding' = FALSE
    /\ Finish(OnBodyRejected(res, Terminated))
    /\ UNCHANGED <<apiUrl, inv, data, reqSignal, timer, calls, ops, res, vInput, vResult, uiVars>>

\* a source of the composite signal has fired, the two sources now being rs
\* and tm: if the signal given to fetch is thereby aborted, the call in flight
\* is torn down and the pending fetch or body read rejects with the reason
SourceFired(rs, tm) ==
    IF pc \in {"awaitFetch", "awaitPayload"} /\ Signal(rs, tm) # NoErr
    THEN /\ outstanding' = FALSE
         /\ Finish(IF pc = "awaitFetch" THEN Caught(Signal(rs, tm))
                   ELSE OnBodyRejected(res, Signal(rs, tm)))
    ELSE UNCHANGED <<pc, outstanding, response, err>>

\* the caller disconnects: req.signal aborts with reason e
ClientDisconnect(e) ==
    /\ pc \in {"awaitBody", "awaitFetch", "awaitPayload"}
    /\ reqSignal = NoErr
    /\ reqSignal' = e
    /\ ops' = Append(ops, "disconnect")
    /\ SourceFired(e, timer)
    /\ UNCHANGED <<apiUrl, inv, data, timer, calls, res, vInput, vResult, uiVars>>

\* the 20-second timer fires
TimerFires ==
    /\ pc \in {"awaitFetch", "awaitPayload"}
    /\ timer = "armed"
    /\ timer' = "fired"
    /\ SourceFired(reqSignal, "fired")
    /\ UNCHANGED <<apiUrl, inv, data, reqSignal, calls, ops, res, vInput, vResult, uiVars>>

\* the next request arrives: a new invocation, sharing nothing with the last
\* but the module-level API_URL (calls is the record of the upstream's side)
NextInvocation ==
    /\ pc = "done"
    /\ inv < MaxInv
    /\ inv' = inv + 1
    /\ pc' = "idle"
    /\ data' = NullData
    /\ reqSignal' = NoErr
    /\ timer' = "unset"
    /\ ops' = <<>>
    /\ res' = NoRes
    /\ err' = NoErr
    /\ response' = NoResponse
    /\ UNCHANGED <<apiUrl, outstanding, calls, vInput, vResult, uiVars>>

Next ==
    \/ \E r \in RelayRequests : Invoke(r)
    \/ BodyRead
    \/ \E st \in Statuses, ct \in ContentTypes : UpstreamResponds(st, ct)
    \/ UpstreamFails
    \/ \E b \in Bodies : BodyArrives(b)
    \/ BodyFails
    \/ \E e \in CallerAbortReasons : ClientDisconnect(e)
    \/ TimerFires
    \/ NextInvocation

Spec == Init /\ [][Next]_vars

\* the request body arrives, the timer fires, and handler code that can run
\* does run
FairSpec == Spec /\ WF_vars(BodyRead) /\ WF_vars(TimerFires)

(***************************************************************************)
(* The validator alone, on every decoded body up to the bounds.            *)
(***************************************************************************)
InitV ==
    /\ InitRelay
    /\ InitUI
    /\ vInput \in Requests
    /\ vResult = NoResult

\* route.ts line 17: chatRequestSchema.safeParse(data)
Validate ==
    /\ vResult = NoResult
    /\ vResult' = chatRequestSchema(vInput)
    /\ UNCHANGED <<relayVars, vInput, uiVars>>

NextV == Validate

SpecV == InitV /\ [][NextV]_vars


(***************************************************************************)
(* The chat UI: ChatPanel (src/unnamed/part_000), whose fetch("/api/chat") *)
(* is served by the handler above.  React commits the state updates of an  *)
(* event handler before the next event is handled, so each handler run     *)
(* between two awaits is one action, and it reads the committed state.     *)
(***************************************************************************)
\* number of requests ChatPanel sends in one behaviour
MaxTurns == 2

\* what the user can have in the input box
Inputs == {"", " ", " hi "}

\* line 25: input.trim(), on the texts of Inputs
Trim(s) ==
    CASE s = " " -> ""
      [] s = " hi " -> "hi"
      [] OTHER -> s

\* line 26 without the loading test
SendBlockedBlankOnly(trimmed, ld) == trimmed = ""

\* line 26: !trimmed || loading
SendBlocked(trimmed, ld) == trimmed = "" \/ ld

\* line 31 with the system message left in
UiHistoryUnfiltered(msgs) == msgs

\* line 31: messages.filter((m) => m.role !== "system")
UiHistory(msgs) == SelectSeq(msgs, LAMBDA m : m.role # "system")

\* line 39: JSON.stringify({ message: trimmed, history }), as the handler's
\* req.json() decodes it
UiBody(trimmed, history) ==
    Obj(Str(trimmed),
        HistArr([i \in 1..Len(history) |->
                    Entry(Str(history[i].role), Str(history[i].content))]))

\* line 42 with only 5xx taken as failure
UiOkBelow500(status) == status < 500

\* line 42: res.ok
UiOk(status) == status \in 200..299

\* lines 43-48: the text shown for a response that is not ok; the handler's
\* error bodies hold no message key
UiErrorText(resp) ==
    IF resp.kind = "json" /\ Truthy(resp.error) THEN resp.error.s
    ELSE "Request failed with status " \o ToString(resp.status)

\* String(data.reply ?? "")
ReplyText(v) == IF v.t \in {"undef", "null"} THEN "" ELSE v.s

\* lines 52-53: res.json() and String(data.reply ?? ""), on a JSON response
\* and on a text one (whose text may or may not be JSON): the reply, or the
\* message of what is thrown
UiReply(resp) ==
    CASE resp.kind = "json" -> [ok |-> TRUE, text |-> ReplyText(resp.reply)]
      [] resp.raw.t = "obj" -> [ok |-> TRUE, text |-> ReplyText(resp.raw.reply)]
      [] resp.raw.t = "null" ->
            [ok |-> FALSE, text |-> "Cannot read properties of null (reading 'reply')"]
      [] OTHER -> [ok |-> FALSE, text |-> "Unexpected token in JSON"]

\* line 63 setting an empty conversation
ResetMessagesEmpty == <<>>

\* line 63: the conversation resetChat sets
ResetMessages == <<SystemMessage>>

\* line 54: [...prev, { role: "assistant", content: reply }]
AppendReply(prev, reply) == Append(prev, [role |-> "assistant", content |-> reply])

\* line 87: onChange={setInput}
SetInput(v) ==
    /\ v # input
    /\ input' = v
    /\ uiLast' = "typed"
    /\ UNCHANGED <<relayVars, vInput, vResult, messages, loading, error, pending, turns>>

\* lines 24-40: sendMessage up to its await of fetch
sendMessage ==
    LET trimmed == Trim(input) IN
    /\ IF SendBlocked(trimmed, loading)
       THEN /\ uiLast' = "ignored"
            /\ UNCHANGED <<messages, input, loading, error, pending, turns>>
       ELSE /\ turns < MaxTurns
            /\ error' = Null
            /\ loading' = TRUE
            /\ messages' = Append(messages, [role |-> "user", content |-> trimmed])
            /\ input' = ""
            /\ pending' = Append(pending, UiBody(trimmed, UiHistory(messages)))
            /\ turns' = turns + 1
            /\ uiLast' = "send"
    /\ UNCHANGED <<relayVars, vInput, vResult>>

\* lines 55-59: fetch rejects (the request never reached the handler)
UiFetchFails ==
    /\ pending # <<>>
    /\ pc = "idle"
    /\ error' = Str("Failed to fetch")
    /\ loading' = FALSE
    /\ pending' = Tail(pending)
    /\ uiLast' = "threw"
    /\ UNCHANGED <<relayVars, vInput, vResult, messages, input, turns>>

\* lines 42-59: sendMessage from the handler's response on; the handler's
\* invocation is over
UiReceive ==
    /\ pending # <<>>
    /\ pc = "done"
    /\ IF ~UiOk(response.status)
       THEN /\ error' = Str(UiErrorText(response))
            /\ uiLast' = "failed"
            /\ UNCHANGED messages
       ELSE IF UiReply(response).ok
       THEN /\ messages' = AppendReply(messages, UiReply(response).text)
            /\ uiLast' = "replied"
            /\ UNCHANGED error
       ELSE /\ error' = Str(UiReply(response).text)
            /\ uiLast' = "threw"
            /\ UNCHANGED messages
    /\ loading' = FALSE
    /\ pending' = Tail(pending)
    /\ inv' = inv + 1
    /\ pc' = "idle"
    /\ data' = NullData
    /\ reqSignal' = NoErr
    /\ timer' = "unset"
    /\ ops' = <<>>
    /\ res' = NoRes
    /\ err' = NoErr
    /\ response' = NoResponse
    /\ UNCHANGED <<apiUrl, outstanding, calls, vInput, vResult, input, turns>>

\* lines 62-66: resetChat
resetChat ==
    /\ messages' = ResetMessages
    /\ error' = Null
    /\ input' = ""
    /\ uiLast' = "reset"
    /\ UNCHANGED <<relayVars, vInput, vResult, loading, pending, turns>>

\* what the upstream answers the requests of the UI with
UiStatuses == {200, 503}
UiContentTypes == {<<"text/plain">>, <<"application/json">>}
UiBodies ==
    {UBody("obj", Undef, Undef, Str("Paris"), Bool("true")),
     UBody("obj", Undef, Undef, Str(""), Bool("false")),
     UBody("obj", Str("overloaded"), Undef, Undef, Undef),
     UBody("bad", Undef, Undef, Undef, Undef)}

NextUI ==
    \/ \E v \in Inputs : SetInput(v)
    \/ sendMessage
    \/ resetChat
    \/ UiFetchFails
    \/ UiReceive
    \/ pending # <<>> /\ Invoke(pending[1])
    \/ BodyRead
    \/ \E st \in UiStatuses, ct \in UiContentTypes : UpstreamResponds(st, ct)
    \/ UpstreamFails
    \/ \E b \in UiBodies : BodyArrives(b)
    \/ TimerFires

SpecUI == Init /\ [][NextUI]_vars

(***************************************************************************)
(* Vocabulary of the properties.                                           *)
(***************************************************************************)
\* the ChatRequest shape as the specification states it
NonEmptyText(v) == v.t = "str" /\ v.s # ""
WellFormedEntry(e) ==
    /\ e.role \in {Str("user"), Str("assistant"), Str("system")}
    /\ NonEmptyText(e.content)
WellFormedHistory(h) ==
    \/ h.t = "undef"
    \/ h.t = "arr" /\ \A i \in 1..Len(h.items) : WellFormedEntry(h.items[i])
ValidRequest(d) ==
    d.t = "obj" /\ NonEmptyText(d.message) /\ WellFormedHistory(d.history)

\* the number of upstream POSTs invocation n has issued
CallsOf(n) == Cardinality({i \in 1..Len(calls) : calls[i].inv = n})

\* the handler has run its validation step in this invocation
Validated == \E i \in 1..Len(ops) : ops[i] = "validate"

\* the caller had already disconnected when the handler called fetch
DisconnectedBeforeFetch ==
    \E i, j \in 1..Len(ops) : i < j /\ ops[i] = "disconnect" /\ ops[j] = "fetch"

HasIssueAt(result, path) ==
    \E k \in 1..Len(result.issues) : result.issues[k].path = path

(***************************************************************************)
(* C1: once the handler has validated a request whose message is missing,  *)
(* not text or empty, or whose history is malformed, it has returned 400   *)
(* { error: "Invalid request data", issues } and this invocation has       *)
(* issued no upstream POST.                                                *)
(***************************************************************************)
C1_InvalidRejectedBeforeUpstream ==
    (Validated /\ ~ValidRequest(data)) =>
        /\ CallsOf(inv) = 0
        /\ pc = "done"
        /\ response.status = 400
        /\ response.error = Str("Invalid request data")
        /\ response.issues # <<>>

(***************************************************************************)
(* C2: chatRequestSchema returns a result for every decoded value; it      *)
(* accepts every object with a non-empty message and a well-formed         *)
(* optional history, and rejects every object with no message (an issue at *)
(* path message) or with a history entry whose role is not one of the      *)
(* three or whose content is empty (an issue at that index's role or       *)
(* content path, for every offending index).                               *)
(***************************************************************************)
C2_ValidatorAcceptsAndRejects ==
    vResult # NoResult =>
        /\ vResult.success = (vResult.issues = <<>>)
        /\ ValidRequest(vInput) => vResult.success /\ vResult.data = vInput
        /\ vInput.t # "obj" => ~vResult.success
        /\ (vInput.t = "obj" /\ vInput.message.t = "undef") =>
               ~vResult.success /\ HasIssueAt(vResult, <<"message">>)
        /\ vInput.t = "obj" /\ vInput.history.t = "arr" =>
               \A i \in 1..Len(vInput.history.items) :
                   LET e == vInput.history.items[i] IN
                   /\ e.role.s \notin {"user", "assistant", "system"} =>
                          ~vResult.success /\ HasIssueAt(vResult, <<"history", i - 1, "role">>)
                   /\ e.content.s = "" =>
                          ~vResult.success /\ HasIssueAt(vResult, <<"history", i - 1, "content">>)

\* a history whose two entries both offend, each reported at its own index
C2_Witness ==
    /\ vResult # NoResult
    /\ vInput.t = "obj"
    /\ vInput.message = Str("hi")
    /\ vInput.history.t = "arr"
    /\ Len(vInput.history.items) = 2
    /\ vInput.history.items[1].role = Str("bot")
    /\ vInput.history.items[2].content = Str("")
    /\ vInput.history.items[2].role = Str("user")
    /\ ~vResult.success
    /\ HasIssueAt(vResult, <<"history", 0, "role">>)
    /\ HasIssueAt(vResult, <<"history", 1, "content">>)


(***************************************************************************)
(* C3: when the timer fires while fetch is still pending (no response head *)
(* has arrived), the upstream call is aborted and the handler returns 504  *)
(* { error: "Upstream request timed out" }; and in no state has the        *)
(* handler returned while its upstream call is outstanding.                *)
(***************************************************************************)
C3_TimeoutAborts ==
    /\ pc = "done" => ~outstanding
    /\ (timer = "fired" /\ res = NoRes) =>
           /\ ~outstanding
           /\ pc = "done"
           /\ response = JsonError(504, Str("Upstream request timed out"))

C3_Witness ==
    /\ timer = "fired"
    /\ res = NoRes
    /\ reqSignal = NoErr
    /\ CallsOf(inv) = 1
    /\ ~outstanding
    /\ response.status = 504

(***************************************************************************)
(* C4: in every state in which either source of the composite signal has   *)
(* fired, the upstream call is no longer in flight: the caller's           *)
(* disconnect aborts it without waiting for the timer, and the timer       *)
(* aborts it without waiting for the caller.                               *)
(***************************************************************************)
C4_EitherSourceAborts ==
    (reqSignal # NoErr \/ timer = "fired") => ~outstanding

\* the caller left while fetch was pending and the timer had not fired
C4_Witness ==
    /\ reqSignal # NoErr
    /\ timer = "armed"
    /\ CallsOf(inv) = 1
    /\ ~DisconnectedBeforeFetch
    /\ res = NoRes
    /\ ~outstanding
    /\ pc = "done"

(***************************************************************************)
(* C5 as stated: whenever the upstream has responded with a non-2xx status *)
(* S, the handler's response is status S with body { error: m }, m being   *)
(* the upstream JSON body's error field if present, else its message field *)
(* if present, else "Upstream error S".                                    *)
(***************************************************************************)
C5_Present(f) ==
    IsJson(res.ctype) /\ res.body.t = "obj" /\ res.body[f].t # "undef"

C5_TruthyField(f) ==
    IsJson(res.ctype) /\ res.body.t = "obj" /\ res.body[f].t = "str" /\ res.body[f].s # ""

C6_SuccessVerbatim ==
    (pc = "done" /\ res.status \in 200..299 /\ IsJson(res.ctype)
        /\ res.body.t = "obj" /\ res.body.reply.t = "str" /\ res.body.handled.t = "bool") =>
        response = [NoResponse EXCEPT !.status = 200, !.kind = "json",
                                      !.reply = res.body.reply,
                                      !.handled = res.body.handled]

C6_Witness ==
    /\ pc = "done"
    /\ res.status = 201
    /\ res.ctype = <<"application/json", "charset=utf-8">>
    /\ res.body.reply = Str("Paris")
    /\ res.body.handled = Bool("false")
    /\ response.status = 200
    /\ response.reply = Str("Paris")
    /\ response.handled = Bool("false")

(***************************************************************************)
(* C7: with no upstream base URL configured (unset or empty), no           *)
(* invocation ever issues an upstream POST, reads the request body or      *)
(* validates it: each returns 500 straight from the configuration check.   *)
(***************************************************************************)
C7_NoConfigFailsFast ==
    apiUrl \in {Undef, Str("")} =>
        /\ calls = <<>>
        /\ ~outstanding
        /\ pc \in {"idle", "done"}
        /\ pc = "done" => response.status = 500 /\ ops = <<"config">>

C7_Witness ==
    /\ apiUrl = Str("")
    /\ inv = 2
    /\ pc = "done"
    /\ data = Obj(Str("hi"), NoHistory)
    /\ response.status = 500


(***************************************************************************)
(* C8 as stated: when the handler ends on a missing base URL, an           *)
(* unreachable upstream or any other exception that is not an abort or a   *)
(* timeout, its response is 500 { error: "Unexpected error", detail }.     *)
(***************************************************************************)
C8_ConfigError == pc = "done" /\ apiUrl \in {Undef, Str("")}
C8_Exception == pc = "done" /\ err # NoErr /\ err.name \notin {"AbortError", "TimeoutError"}

C8_UnexpectedEnvelopeAsStated ==
    (C8_ConfigError \/ C8_Exception) =>
        /\ response.status = 500
        /\ response.error = Str("Unexpected error")
        /\ response.detail.t = "str"

(***************************************************************************)
(* C8 amended: an unreachable upstream or any other exception that is not  *)
(* an abort or a timeout ends in 500 { error: "[API_CHAT] Unexpected       *)
(* error", detail: <the exception's message> }; a missing base URL ends in *)
(* 500 { error: "API_URL not found" } with no detail.                      *)
(***************************************************************************)
C8_UnexpectedEnvelope ==
    /\ C8_Exception =>
           response = [NoResponse EXCEPT !.status = 500, !.kind = "json",
                                         !.error = Str("[API_CHAT] Unexpected error"),
                                         !.detail = Str(err.message)]
    /\ C8_ConfigError =>
           response = [NoResponse EXCEPT !.status = 500, !.kind = "json",
                                         !.error = Str("API_URL not found")]

\* the upstream was unreachable
C8_Witness ==
    /\ pc = "done"
    /\ err = FetchFailed
    /\ CallsOf(inv) = 1
    /\ response.status = 500
    /\ response.detail = Str("fetch failed")

(***************************************************************************)
(* C9 as stated: every response the handler returns is one of the          *)
(* structured envelopes: 200 { reply, handled }, 400 { error: "Invalid     *)
(* request data", issues }, the upstream's non-2xx status with { error },  *)
(* 504 { error: "Upstream request timed out" }, or 500 { error, detail? }. *)
(***************************************************************************)
C9_Envelope(r) ==
    /\ r.kind = "json"
    /\ \/ r.status = 200 /\ r.reply.t = "str" /\ r.handled.t = "bool" /\ r.error = Undef
       \/ r.status = 400 /\ r.error = Str("Invalid request data") /\ r.issues # <<>>
       \/ r.status = res.status /\ res.status \notin 200..299 /\ r.error.t = "str"
       \/ r = JsonError(504, Str("Upstream request timed out"))
       \/ r.status = 500 /\ r.error.t = "str"

C9_OnlyEnvelopesAsStated == pc = "done" => C9_Envelope(response)

(***************************************************************************)
(* C9 amended: every invocation of POST that has started eventually        *)
(* returns, it has returned nothing before it does and does not change its *)
(* response afterwards, and the response is one of the structured          *)
(* envelopes or the pass-through of a non-JSON 2xx upstream body (200,     *)
(* the upstream's text, the upstream's content type or text/plain).        *)
(***************************************************************************)
C9_PassThrough(r) ==
    /\ r.kind = "text"
    /\ r.status = 200
    /\ res.status \in 200..299
    /\ r.raw = res.body
    /\ r.ctype = IF res.ctype = <<>> THEN <<"text/plain">> ELSE res.ctype

C9_TotalMapping ==
    /\ [](pc \in {"idle", "awaitBody", "awaitFetch", "awaitPayload", "done"})
    /\ [](pc # "done" => response = NoResponse)
    /\ [](pc = "done" => C9_Envelope(response) \/ C9_PassThrough(response))
    /\ [][pc = "done" => (response' = response \/ inv' = inv + 1)]_vars
    /\ (pc # "idle") ~> (pc = "done")

\* the upstream never answered and the caller stayed: the timer ended it
C9_Witness ==
    /\ pc = "done"
    /\ timer = "fired"
    /\ reqSignal = NoErr
    /\ res = NoRes
    /\ C9_Envelope(response)

(***************************************************************************)
(* C10 as stated: no invocation issues more than one upstream POST, and an *)
(* invocation with the base URL configured and a valid request has issued  *)
(* exactly one by the time it awaits the upstream or has returned.         *)
(***************************************************************************)
C10_PastValidation == Validated /\ ~ConfigMissing(apiUrl) /\ ValidRequest(data)

C10_ExactlyOneCallAsStated ==
    /\ \A n \in 1..MaxInv : CallsOf(n) <= 1
    /\ C10_PastValidation => CallsOf(inv) = 1

(***************************************************************************)
(* C10 amended: no invocation issues more than one upstream POST, and an   *)
(* invocation with the base URL configured and a valid request whose       *)
(* caller had not disconnected before the handler called fetch has issued  *)
(* exactly one, whatever earlier invocations sent (an identical earlier    *)
(* request included); one whose caller had disconnected issues none.       *)
(***************************************************************************)
C10_OneCallPerValidRequest ==
    /\ \A n \in 1..MaxInv : CallsOf(n) <= 1
    /\ \A n \in 1..MaxInv : n > inv => CallsOf(n) = 0
    /\ C10_PastValidation =>
           CallsOf(inv) = (IF DisconnectedBeforeFetch THEN 0 ELSE 1)
    /\ (C10_PastValidation /\ CallsOf(inv) = 1) =>
           \E i \in 1..Len(calls) : calls[i] = [inv |-> inv, body |-> data]

\* two identical valid requests, two upstream calls with the same body
C10_Witness ==
    /\ inv = 2
    /\ pc = "done"
    /\ Len(calls) = 2
    /\ calls[1].inv = 1
    /\ calls[2].inv = 2
    /\ calls[1].body = calls[2].body
    /\ calls[2].body = data
    /\ ValidRequest(data)


(***************************************************************************)
(* C14: when the upstream has responded 2xx with a JSON content type and   *)
(* the handler has returned, but the body is not JSON, is not an object,   *)
(* or lacks a text reply or a boolean handled, the response is not 200 and *)
(* carries nothing of that body: it is a JSON error envelope.              *)
(***************************************************************************)
C14_MalformedBody ==
    /\ pc = "done"
    /\ res.status \in 200..299
    /\ IsJson(res.ctype)
    /\ ~(res.body.t = "obj" /\ res.body.reply.t = "str" /\ res.body.handled.t = "bool")

C14_MalformedUpstreamNormalized ==
    C14_MalformedBody =>
        /\ response.status # 200
        /\ response.status \in 400..599
        /\ response.kind = "json"
        /\ response.error.t = "str" /\ response.error.s # ""
        /\ response.reply = Undef
        /\ response.handled = Undef
        /\ response.raw = NoBody

\* upstream 200 application/json { reply: "Paris" } with no handled
C14_Witness ==
    /\ C14_MalformedBody
    /\ res.status = 200
    /\ res.body.t = "obj"
    /\ res.body.reply = Str("Paris")
    /\ res.body.handled = Undef
    /\ response.status = 500


(***************************************************************************)
(* C11: the step in which ChatPanel handles a response whose status is not *)
(* 200 leaves the conversation as it was (no message changed, moved or     *)
(* added), sets a non-empty error text and clears loading; and after it    *)
(* the error is shown, loading is false and no request is in flight, so    *)
(* the user can send again.                                                *)
(***************************************************************************)
C11_HandlesNon200 ==
    /\ pc = "done"
    /\ pending # <<>>
    /\ pending' = Tail(pending)
    /\ response.status # 200

C11_ErrorKeepsConversation ==
    /\ [][C11_HandlesNon200 =>
            /\ messages' = messages
            /\ error'.t = "str" /\ error'.s # ""
            /\ loading' = FALSE]_vars
    /\ [](uiLast = "failed" =>
            /\ error.t = "str" /\ error.s # ""
            /\ ~loading
            /\ pending = <<>>)

\* the upstream answered 503 { error: "overloaded" } to the first send
C11_Witness ==
    /\ uiLast = "failed"
    /\ error = Str("overloaded")
    /\ ~loading
    /\ messages = <<SystemMessage, [role |-> "user", content |-> "hi"]>>

(***************************************************************************)
(* C12: the conversation always starts with the system message and holds   *)
(* no other message of role system; a step that is not a Reset leaves it   *)
(* as it is or appends one message; and Reset leaves exactly the system    *)
(* message, no error and an empty input.                                   *)
(***************************************************************************)
C12_SystemMessageLeads ==
    /\ [](/\ Len(messages) >= 1
          /\ messages[1] = [role |-> "system", content |-> "You are a helpful assistant."]
          /\ \A i \in 2..Len(messages) : messages[i].role # "system")
    /\ [][uiLast' # "reset" =>
            \/ messages' = messages
            \/ /\ Len(messages') = Len(messages) + 1
               /\ SubSeq(messages', 1, Len(messages)) = messages]_vars
    /\ [](uiLast = "reset" =>
            /\ messages = <<[role |-> "system", content |-> "You are a helpful assistant."]>>
            /\ error = Null
            /\ input = "")

\* Reset pressed after a turn that was answered
C12_Witness ==
    /\ uiLast = "reset"
    /\ turns >= 1
    /\ Len(calls) >= 1
    /\ ~loading
    /\ Len(messages) = 1

(***************************************************************************)
(* C13: the request ChatPanel sends on a turn carries the trimmed input as *)
(* message and, as history, the conversation before that turn without its  *)
(* leading system message, entry for entry in the same order; and the body *)
(* the handler posts to the upstream for that request is the request       *)
(* itself: same message, same history length, same role and content at     *)
(* every index.                                                            *)
(***************************************************************************)
C13_HistoryPreserved ==
    /\ [][Len(pending') > Len(pending) =>
            LET sent == pending'[Len(pending')] IN
            /\ sent.t = "obj"
            /\ sent.message.t = "str"
            /\ input \in {sent.message.s, " " \o sent.message.s \o " "}
            /\ sent.history.t = "arr"
            /\ Len(sent.history.items) = Len(messages) - 1
            /\ \A i \in 1..Len(sent.history.items) :
                   sent.history.items[i] =
                       Entry(Str(messages[i + 1].role), Str(messages[i + 1].content))]_vars
    /\ [](\A k \in 1..Len(calls) :
            calls[k].inv = inv =>
                /\ pending # <<>>
                /\ calls[k].body.message = pending[1].message
                /\ Len(calls[k].body.history.items) = Len(pending[1].history.items)
                /\ \A i \in 1..Len(pending[1].history.items) :
                       /\ calls[k].body.history.items[i].role = pending[1].history.items[i].role
                       /\ calls[k].body.history.items[i].content
                              = pending[1].history.items[i].content)

\* the second turn's history, as the upstream received it
C13_Witness ==
    /\ Len(calls) = 2
    /\ calls[2].inv = 2
    /\ calls[2].body.history.items =
           <<Entry(Str("user"), Str("hi")), Entry(Str("assistant"), Str("Paris"))>>
    /\ messages = <<SystemMessage, [role |-> "user", content |-> "hi"],
                    [role |-> "assistant", content |-> "Paris"],
                    [role |-> "user", content |-> "hi"]>>

(***************************************************************************)
(* C15: at most one /api/chat request of ChatPanel is in flight; loading   *)
(* is true exactly while one is; no step issues a request while loading is *)
(* true or the input is blank; and a sendMessage that is turned away       *)
(* changes neither messages, input, error, loading nor the requests in     *)
(* flight.                                                                 *)
(***************************************************************************)
C15_SingleFlight ==
    /\ [](Len(pending) <= 1 /\ (loading <=> pending # <<>>))
    /\ [][(loading \/ input \in {"", " "}) => Len(pending') <= Len(pending)]_vars
    /\ [][(uiLast' = "ignored" /\ uiLast # "ignored") =>
            UNCHANGED <<messages, input, loading, error, pending>>]_vars

\* Enter pressed, with text in the box, while a request is in flight
C15_Witness ==
    /\ uiLast = "ignored"
    /\ loading
    /\ input = " hi "
    /\ Len(pending) = 1

(***************************************************************************)
(* C16: every assistant message of the conversation comes right after a    *)
(* user message.                                                           *)
(***************************************************************************)
C16_ReplyFollowsUserMessage ==
    \A i \in 1..Len(messages) :
        messages[i].role = "assistant" => (i > 1 /\ messages[i - 1].role = "user")

====
